---- MODULE Spec2Model ----
(***************************************************************************)
(* A model of the resource access and response-cache engine of the         *)
(* Shareabouts API (sa_api_v2): the dual principal resolution of           *)
(* ShareaboutsAPIRequest, the object identity verification of              *)
(* OwnedResourceMixin, and the response cache of CachedResourceMixin with  *)
(* the cache clearing hooks of CacheClearingModel.                         *)
(*                                                                         *)
(* Text is modelled as a sequence of symbols.  A symbol is either one of   *)
(* the characters the code treats specially (":", ",", "&", "_", "=", a    *)
(* digit) or an atomic chunk of other characters ("alice", "/places/").    *)
(***************************************************************************)
EXTENDS Integers, Sequences, FiniteSets, TLC

VARIABLES
    store,      \* the django cache: key -> [val, exp]
    place,      \* the places table: place id -> row
    now,        \* the clock of the cache store, in seconds
    nreq,       \* number of requests started so far
    req,        \* per worker: the request it handles and its position
    kin,        \* inputs of a get_cache_key application
    kout,       \* the keys derived from kin
    creq,       \* a ShareaboutsAPIRequest object: its attributes
    cobs        \* what the reads of creq's properties have observed

mainVars == <<store, place, now, nreq, req>>
keyVars == <<kin, kout>>
clientVars == <<creq, cobs>>
vars == <<store, place, now, nreq, req, kin, kout, creq, cobs>>

None == "None"

-----------------------------------------------------------------------------
(* Text helpers *)

Digits == {"0", "1", "2"}

RECURSIVE JoinSeq(_, _)
\* ':'.join(parts) / ','.join(parts): the parts with the delimiter between them
JoinSeq(parts, delim) ==
    IF Len(parts) = 0 THEN <<>>
    ELSE IF Len(parts) = 1 THEN parts[1]
    ELSE parts[1] \o <<delim>> \o JoinSeq(Tail(parts), delim)

RECURSIVE DigitsEnd(_, _)
\* the first position at or after i that holds no digit (\d+ is greedy)
DigitsEnd(s, i) ==
    IF i <= Len(s) /\ s[i] \in Digits THEN DigitsEnd(s, i + 1) ELSE i

\* where a match of _=\d+ that starts at k ends (exclusive), 0 when none
BusterAt(s, k) ==
    IF k + 2 <= Len(s) /\ s[k] = "_" /\ s[k + 1] = "=" /\ s[k + 2] \in Digits
    THEN DigitsEnd(s, k + 2)
    ELSE 0

\* where a match of &?_=\d+ that starts at i ends (exclusive), 0 when none
cache_buster_pattern(s, i) ==
    IF s[i] = "&" /\ BusterAt(s, i + 1) # 0 THEN BusterAt(s, i + 1)
    ELSE BusterAt(s, i)

RECURSIVE ReSubFrom(_, _)
\* re.sub(cache_buster_pattern, '', s) from position i on: leftmost matches,
\* not overlapping, each replaced by nothing
ReSubFrom(s, i) ==
    IF i > Len(s) THEN <<>>
    ELSE IF cache_buster_pattern(s, i) # 0
         THEN ReSubFrom(s, cache_buster_pattern(s, i))
         ELSE <<s[i]>> \o ReSubFrom(s, i + 1)

StripCacheBuster(querystring) == ReSubFrom(querystring, 1)

-----------------------------------------------------------------------------
(* The data the requests are about *)

Users == {"alice", "bob", "carol"}

\* the datasets table: id -> row
DataSets ==
    [i \in {1, 2, 3} |->
        CASE i = 1 -> [id |-> 1, owner |-> "alice", slug |-> "ds"]
          [] i = 2 -> [id |-> 2, owner |-> "bob", slug |-> "ds"]
          [] i = 3 -> [id |-> 3, owner |-> "alice", slug |-> "d2"]]

\* user._groups.all(): the groups of a user, as the query enumerates them
UserGroups(u) ==
    CASE u = "carol" -> << [name |-> <<"g1">>, dataset_id |-> 1] >>
      [] u = "bob" -> << [name |-> <<"g2">>, dataset_id |-> 1],
                         [name |-> <<"g3">>, dataset_id |-> 3] >>
      [] OTHER -> << >>

\* unicode(pk) and the parse of a pk out of the URL
IntToStr(n) == CASE n = 1 -> "1" [] n = 2 -> "2" [] OTHER -> "0"

StrToInt(t) == CASE t = "1" -> 1 [] t = "2" -> 2 [] OTHER -> 0


\* get_object_or_none: the row with this primary key, looked up by the key
\* alone; 0 when there is none
get_object_or_none(places, pk) ==
    IF pk \in DOMAIN places THEN pk ELSE 0

\* _get_dataset_from_db: the dataset with this owner and slug, 0 when none
get_dataset(owner_username, dataset_slug) ==
    IF \E i \in DOMAIN DataSets :
           DataSets[i].owner = owner_username /\ DataSets[i].slug = dataset_slug
    THEN CHOOSE i \in DOMAIN DataSets :
           DataSets[i].owner = owner_username /\ DataSets[i].slug = dataset_slug
    ELSE 0

-----------------------------------------------------------------------------
(* CachedResourceMixin: the cache key *)

\* every method of the model goes through the cache
EveryMethodSafe == {"GET", "HEAD", "OPTIONS", "PUT"}

SAFE_METHODS == {"GET", "HEAD", "OPTIONS"}

API_CACHE_TIMEOUT == 604800

cache_prefix(path) == path

get_cache_metakey(path) == cache_prefix(path) \o <<"_keys">>

RECURSIVE group_set(_, _)
\* the names of the groups that belong to the dataset, in enumeration order
group_set(groups, dataset_id) ==
    IF Len(groups) = 0 THEN <<>>
    ELSE (IF Head(groups).dataset_id = dataset_id
          THEN <<Head(groups).name>> ELSE <<>>)
         \o group_set(Tail(groups), dataset_id)

\* the value of `groups` in get_cache_key for a user (None: not authenticated),
\* a dataset id (0: the view has no dataset) and the groups of the user as
\* request.user._groups.all() enumerates them
GroupTokenOf(user, dataset_id, groups) ==
    IF user = None THEN <<>>
    ELSE IF dataset_id = 0 THEN <<>>
    ELSE IF user = DataSets[dataset_id].owner THEN <<"__owners__">>
    ELSE JoinSeq(group_set(groups, dataset_id), ",")

\* the value of `groups` for a user of the model's data
GroupToken(user, dataset_id) == GroupTokenOf(user, dataset_id, UserGroups(user))

KeyWithoutGroups(prefix, contenttype, querystring, groups) ==
    JoinSeq(<<cache_prefix(prefix), contenttype,
              StripCacheBuster(querystring)>>, ":")

get_cache_key(prefix, contenttype, querystring, groups) ==
    JoinSeq(<<cache_prefix(prefix), contenttype,
              StripCacheBuster(querystring), groups>>, ":")


-----------------------------------------------------------------------------
(* ShareaboutsAPIRequest: client resolution *)

\* What authenticator.authenticate(request) does, for each client
\* authenticator of the request: returns None, returns (client, token), or
\* raises an APIException.
AuthOutcome(name, kind, client, token) ==
    [name |-> name, kind |-> kind, client |-> client, token |-> token]

_client_not_authenticated ==
    [_client_authenticator |-> None, _client |-> None, _client_auth |-> None]

RECURSIVE AuthenticateLastWins(_, _, _)
AuthenticateLastWins(authenticators, i, found) ==
    IF i > Len(authenticators)
    THEN [raised |-> FALSE, ran |-> i - 1, attrs |-> found]
    ELSE IF authenticators[i].kind = "raise"
    THEN [raised |-> TRUE, ran |-> i, attrs |-> _client_not_authenticated]
    ELSE IF authenticators[i].kind = "ok"
    THEN AuthenticateLastWins(authenticators, i + 1,
             [_client_authenticator |-> authenticators[i].name,
              _client |-> authenticators[i].client,
              _client_auth |-> authenticators[i].token])
    ELSE AuthenticateLastWins(authenticators, i + 1, found)

RECURSIVE AuthenticateFrom(_, _)
\* the loop of _authenticate_client from the i-th authenticator on: `ran` is
\* the number of authenticators it has called when it ends
AuthenticateFrom(authenticators, i) ==
    IF i > Len(authenticators)
    THEN [raised |-> FALSE, ran |-> i - 1, attrs |-> _client_not_authenticated]
    ELSE IF authenticators[i].kind = "raise"
    THEN [raised |-> TRUE, ran |-> i, attrs |-> _client_not_authenticated]
    ELSE IF authenticators[i].kind = "ok"
    THEN [raised |-> FALSE, ran |-> i,
          attrs |-> [_client_authenticator |-> authenticators[i].name,
                     _client |-> authenticators[i].client,
                     _client_auth |-> authenticators[i].token]]
    ELSE AuthenticateFrom(authenticators, i + 1)

ClientLastWins(authenticators) ==
    AuthenticateLastWins(authenticators, 1, _client_not_authenticated)

_authenticate_client(authenticators) == AuthenticateFrom(authenticators, 1)


-----------------------------------------------------------------------------
(* ShareaboutsAPIRequest as an object: its properties read and assigned *)

Unset == "Unset"            \* hasattr(self, name) is False
Unobserved == "Unobserved"  \* the property has not been read yet
MaxReads == 3               \* property reads modelled per request object

client_authentication_classes == <<"ApiKeyAuthentication", "OriginAuthentication">>

\* the views give a request at most their client authentication classes
MaxAuthenticators == Len(client_authentication_classes)

\* the behaviours of one client authenticator on a request
Behaviours(name) ==
    { AuthOutcome(name, "none", None, None),
      AuthOutcome(name, "raise", None, None),
      AuthOutcome(name, "ok", "client_of_" \o name, "token_of_" \o name) }

AuthenticatorLists ==
    UNION { { a \in [1..n -> UNION {Behaviours(client_authentication_classes[i]) : i \in 1..2}] :
                \A i \in 1..n : a[i].name = client_authentication_classes[i] }
            : n \in 0..MaxAuthenticators }

\* ShareaboutsAPIRequest.__init__: no attribute of the resolution is set
NewRequest(authenticators, user_token) ==
    [client_authenticators |-> authenticators,
     user_token |-> user_token,
     _client |-> Unset, _client_auth |-> Unset, _client_authenticator |-> Unset,
     _auth |-> Unset, _authenticator |-> Unset,
     calls |-> [i \in 1..Len(authenticators) |-> 0]]

NoResolution == [raised |-> FALSE, ran |-> -1, attrs |-> _client_not_authenticated]

NewObservations ==
    [reads |-> 0, prop |-> None, outcome |-> Unobserved,
     first |-> [client |-> Unobserved, client_auth |-> Unobserved,
                successful_authenticator |-> Unobserved],
     res |-> NoResolution]

\* the request object after self._authenticate_client() has run on it
Resolved(o) ==
    LET res == _authenticate_client(o.client_authenticators)
    IN [o EXCEPT !._client_authenticator = res.attrs._client_authenticator,
                 !._client = res.attrs._client,
                 !._client_auth = res.attrs._client_auth,
                 !.calls = [i \in DOMAIN o.calls |->
                               IF i <= res.ran THEN o.calls[i] + 1 ELSE o.calls[i]]]

\* rest_framework's Request._authenticate for the user: sets _authenticator
\* and _auth (the token of the user, None for an anonymous user)
UserResolved(o) ==
    IF o._authenticator # Unset THEN o
    ELSE [o EXCEPT !._authenticator =
                       IF o.user_token = None THEN None ELSE "BasicAuthentication",
                   !._auth = o.user_token]

Observe(prop, outcome, res) ==
    [cobs EXCEPT !.reads = @ + 1, !.prop = prop, !.outcome = outcome,
                 !.first[prop] = IF @ = Unobserved THEN outcome ELSE @,
                 !.res = res]

\* request.client (the property getter)
ReadClient ==
    /\ cobs.reads < MaxReads
    /\ IF creq._client = Unset
       THEN LET res == _authenticate_client(creq.client_authenticators)
            IN /\ creq' = Resolved(creq)
               /\ cobs' = Observe("client",
                              IF res.raised THEN "raise" ELSE res.attrs._client, res)
       ELSE /\ creq' = creq
            /\ cobs' = Observe("client", creq._client, cobs.res)
    /\ UNCHANGED <<mainVars, keyVars>>

\* request.client = value
SetClient ==
    /\ cobs.reads < MaxReads
    /\ \E value \in {None, "assigned_client"} :
          creq' = [creq EXCEPT !._client = value]
    /\ cobs' = [cobs EXCEPT !.first.client = Unobserved,
                            !.prop = None, !.outcome = Unobserved]
    /\ UNCHANGED <<mainVars, keyVars>>

\* request.client_auth (the property getter): resolves the client when
\* _client_auth is not set, then returns self._auth
ReadClientAuth ==
    /\ cobs.reads < MaxReads
    /\ LET run == creq._client_auth = Unset
           res == IF run THEN _authenticate_client(creq.client_authenticators)
                  ELSE cobs.res
           o == IF run THEN Resolved(creq) ELSE creq
       IN /\ creq' = o
          /\ cobs' = Observe("client_auth",
                         IF run /\ res.raised THEN "raise"
                         ELSE IF o._auth = Unset THEN "AttributeError"
                         ELSE o._auth, res)
    /\ UNCHANGED <<mainVars, keyVars>>

\* request.client_auth = value
SetClientAuth ==
    /\ cobs.reads < MaxReads
    /\ \E value \in {None, "assigned_token"} :
          creq' = [creq EXCEPT !._client_auth = value]
    /\ cobs' = [cobs EXCEPT !.first.client_auth = Unobserved,
                            !.prop = None, !.outcome = Unobserved]
    /\ UNCHANGED <<mainVars, keyVars>>

\* request.successful_authenticator: the user's authenticator, else the
\* client's
ReadSuccessfulAuthenticator ==
    /\ cobs.reads < MaxReads
    /\ LET u == UserResolved(creq)
           run == u._authenticator = None /\ u._client_authenticator = Unset
           res == IF run THEN _authenticate_client(u.client_authenticators)
                  ELSE cobs.res
           o == IF run THEN Resolved(u) ELSE u
       IN /\ creq' = o
          /\ cobs' = Observe("successful_authenticator",
                         IF run /\ res.raised THEN "raise"
                         ELSE IF u._authenticator # None THEN u._authenticator
                         ELSE o._client_authenticator, res)
    /\ UNCHANGED <<mainVars, keyVars>>

\* request.user is read (perform_authentication): the user is resolved
ReadUser ==
    /\ creq._authenticator = Unset
    /\ creq' = UserResolved(creq)
    /\ UNCHANGED <<cobs, mainVars, keyVars>>


-----------------------------------------------------------------------------
(* The cache store (django_cache.cache) *)

NoneVal == [kind |-> "None"]

EmptyStore == [k \in {} |-> NoneVal]

\* cache.get(key): the value, None when absent or expired
CacheGet(s, t, k) ==
    IF k \in DOMAIN s /\ s[k].exp > t THEN s[k].val ELSE NoneVal

\* cache.set(key, value, timeout); `at` keeps the time of the set
CacheSet(s, t, k, v, timeout) ==
    [x \in DOMAIN s \cup {k} |->
        IF x = k THEN [val |-> v, exp |-> t + timeout, at |-> t] ELSE s[x]]

\* cache.delete_many(keys)
CacheDelete(s, ks) == [x \in DOMAIN s \ ks |-> s[x]]

\* `cache.get(metakey) or set()`
KeysetOf(val) == IF val.kind = "keys" THEN val.keys ELSE {}

-----------------------------------------------------------------------------
(* Requests *)

NumWorkers == 2
Workers == 1..NumWorkers
MaxRequests == 3      \* requests started in one behaviour
MaxScenario == 5      \* requests started in one behaviour of the scenario
MaxVersion == 2       \* updates of one place in one behaviour
MaxTicks == 2         \* clock advances in one behaviour
TickLength == API_CACHE_TIMEOUT \div 2

StrVal(t) == [str |-> t]
IntVal(n) == [int |-> n]

\* unicode(value)
Unicode(v) == IF "int" \in DOMAIN v THEN IntToStr(v.int) ELSE v.str

\* request.path of the two views
Path(inp) ==
    IF inp.view = "instance"
    THEN <<"/", inp.owner_username, "/", inp.dataset_slug, "/places/", inp.place_id>>
    ELSE <<"/", inp.owner_username, "/", inp.dataset_slug, "/places">>

\* self.kwargs: the identity claims of the path
Kwargs(inp) ==
    IF inp.view = "instance"
    THEN [owner_username |-> StrVal(inp.owner_username),
          dataset_slug |-> StrVal(inp.dataset_slug),
          place_id |-> StrVal(inp.place_id)]
    ELSE [owner_username |-> StrVal(inp.owner_username),
          dataset_slug |-> StrVal(inp.dataset_slug)]

\* INCLUDE_INVISIBLE_PARAM in self.request.GET
IncludeInvisible(inp) ==
    \E i \in 1..Len(inp.query) : inp.query[i] = "include_invisible"

\* request.user of the django request that CachedResourceMixin.dispatch
\* receives: the user of the session (AuthenticationMiddleware)
SessionUser(inp) == inp.session

\* request.user of the rest_framework request: the first of
\* authentication_classes that authenticates
Subject(inp) ==
    IF inp.basic # None THEN inp.basic
    ELSE IF inp.bearer # None THEN inp.bearer
    ELSE inp.session

\* what the client authenticators of the view do on this request
ClientAuthenticators(inp) ==
    << CASE inp.apikey = "valid" ->
               AuthOutcome("ApiKeyAuthentication", "ok", "key_of_ds1", "key")
         [] inp.apikey = "invalid" ->
               AuthOutcome("ApiKeyAuthentication", "raise", None, None)
         [] OTHER -> AuthOutcome("ApiKeyAuthentication", "none", None, None),
       AuthOutcome("OriginAuthentication", "none", None, None) >>


-----------------------------------------------------------------------------
(* The access gate (rest_framework's initial(): authentication, then the   *)
(* permission classes of OwnedResourceMixin)                               *)

\* the action a request asks for
ActionOf(inp) ==
    IF inp.method \in {"GET", "HEAD"}
    THEN (IF IncludeInvisible(inp) THEN "read-invisible" ELSE "read")
    ELSE IF inp.method = "OPTIONS" THEN "read"
    ELSE "write"

\* the actions the rules of a client grant on a dataset
ClientGrants(client, dataset_id) ==
    IF client = "key_of_ds1" /\ dataset_id = 1 THEN {"read", "write"} ELSE {}

\* the actions the rules of a group grant on its dataset
GroupGrants(name) == IF name = <<"g1">> THEN {"read", "write"} ELSE {"read"}

AuthorizeByRulesOnly(subject, client, dataset_id, action) ==
    IF action \in {"read-private", "read-invisible"} THEN FALSE
    ELSE IF client # None /\ action \in ClientGrants(client, dataset_id) THEN TRUE
    ELSE IF subject # None
            /\ \E i \in 1..Len(UserGroups(subject)) :
                  /\ UserGroups(subject)[i].dataset_id = dataset_id
                  /\ action \in GroupGrants(UserGroups(subject)[i].name)
         THEN TRUE
    ELSE action = "read"

\* the precedence of the permission rules
Authorize(subject, client, dataset_id, action) ==
    IF subject # None /\ subject = DataSets[dataset_id].owner THEN TRUE
    ELSE IF action \in {"read-private", "read-invisible"} THEN FALSE
    ELSE IF client # None /\ action \in ClientGrants(client, dataset_id) THEN TRUE
    ELSE IF subject # None
            /\ \E i \in 1..Len(UserGroups(subject)) :
                  /\ UserGroups(subject)[i].dataset_id = dataset_id
                  /\ action \in GroupGrants(UserGroups(subject)[i].name)
         THEN TRUE
    ELSE action = "read"

\* the decision of the gate on a request
GateOutcome(inp) ==
    LET res == _authenticate_client(ClientAuthenticators(inp))
        dataset_id == get_dataset(inp.owner_username, inp.dataset_slug)
    IN IF res.raised THEN "rejected"
       ELSE IF dataset_id = 0 THEN "not_found"
       ELSE IF Authorize(Subject(inp), res.attrs._client, dataset_id, ActionOf(inp))
            THEN "ok"
       ELSE "denied"

-----------------------------------------------------------------------------
(* Responses and handlers *)

NoResponse == [status |-> 0, content |-> [kind |-> "none"],
               cached |-> FALSE, cache_control |-> FALSE]

Response(status, content) ==
    [status |-> status, content |-> content,
     cached |-> FALSE, cache_control |-> FALSE]

ErrorContent(detail) == [kind |-> "error", detail |-> detail]

\* the response of the gate when it stops the request, NoResponse otherwise
GateResponse(inp) ==
    CASE GateOutcome(inp) = "rejected" -> Response(401, ErrorContent("AuthenticationFailed"))
      [] GateOutcome(inp) = "denied" -> Response(403, ErrorContent("PermissionDenied"))
      [] GateOutcome(inp) = "not_found" -> Response(404, ErrorContent("Http404"))
      [] OTHER -> NoResponse

\* the visibility class a payload is serialized for: that of the user the
\* gate has authenticated
Viewer(inp) ==
    GroupToken(Subject(inp), get_dataset(inp.owner_username, inp.dataset_slug))

\* cache.get_cached_instance_params(obj.pk, lambda: obj): the identifying
\* attributes of a place
InstanceParams(places, pk) ==
    [owner_username |-> StrVal(DataSets[places[pk].dataset].owner),
     dataset_slug |-> StrVal(DataSets[places[pk].dataset].slug),
     place_id |-> IntVal(pk)]

IsVerifiedIgnoringOwner(kwargs, params) ==
    \A attr \in DOMAIN kwargs \ {"owner_username"} :
        ~(attr \in DOMAIN params /\ Unicode(kwargs[attr]) # Unicode(params[attr]))

is_verified_object(kwargs, params) ==
    \A attr \in DOMAIN kwargs :
        ~(attr \in DOMAIN params /\ Unicode(kwargs[attr]) # Unicode(params[attr]))

\* getattr(obj, 'visible', True)
Visible(obj) == IF "visible" \in DOMAIN obj THEN obj.visible ELSE TRUE

VerifyIdentityOnly(inp, places, pk) ==
    IF ~is_verified_object(Kwargs(inp), InstanceParams(places, pk)) THEN "Http404"
    ELSE "ok"

\* verify_object: "ok", or the exception it raises
verify_object(inp, places, pk) ==
    IF ~Visible(places[pk]) /\ ~IncludeInvisible(inp) THEN "QueryError"
    ELSE IF ~is_verified_object(Kwargs(inp), InstanceParams(places, pk)) THEN "Http404"
    ELSE "ok"

PlaceContent(places, pk, viewer) ==
    [kind |-> "place", id |-> pk, ver |-> places[pk].ver, viewer |-> viewer]

\* PlaceInstanceView.get: get_object, then the serialized place
Retrieve(inp, places) ==
    LET pk == get_object_or_none(places, StrToInt(inp.place_id))
    IN IF pk = 0 THEN Response(404, ErrorContent("Http404"))
       ELSE IF verify_object(inp, places, pk) = "QueryError"
            THEN Response(400, ErrorContent("QueryError"))
       ELSE IF verify_object(inp, places, pk) = "Http404"
            THEN Response(404, ErrorContent("Http404"))
       ELSE Response(200, PlaceContent(places, pk, Viewer(inp)))

\* PlaceListView.get: get_queryset, then the serialized places
List(inp, places) ==
    LET dataset_id == get_dataset(inp.owner_username, inp.dataset_slug)
        queryset == {pk \in DOMAIN places :
                        /\ places[pk].dataset = dataset_id
                        /\ places[pk].visible \/ IncludeInvisible(inp)}
    IN Response(200, [kind |-> "list",
                      items |-> {<<pk, places[pk].ver>> : pk \in queryset},
                      viewer |-> Viewer(inp)])

\* APIView.options
Options(inp) == Response(200, [kind |-> "metadata"])

\* the row of a place after PlaceInstanceView.update has saved it
Updated(row) == [row EXCEPT !.ver = @ + 1]

\* PlaceInstanceView.update: the places after the save.  The requests of the
\* model update places that exist (get_object_or_none finds the row), so the
\* insert of a new row is not part of it.
UpdatePlaces(inp, places) ==
    LET pk == get_object_or_none(places, StrToInt(inp.place_id))
    IN IF pk = 0 THEN places
       ELSE [places EXCEPT ![pk] = Updated(@)]

\* the response of the view's own handler for the method
Handle(inp, places) ==
    CASE inp.method \in {"GET", "HEAD"} /\ inp.view = "instance" -> Retrieve(inp, places)
      [] inp.method \in {"GET", "HEAD"} /\ inp.view = "list" -> List(inp, places)
      [] inp.method = "OPTIONS" -> Options(inp)
      [] inp.method = "PUT" ->
            Response(200, PlaceContent(UpdatePlaces(inp, places),
                                       StrToInt(inp.place_id), Viewer(inp)))

\* respond_from_cache
respond_from_cache(cached_data) ==
    [status |-> cached_data.status, content |-> cached_data.content,
     cached |-> TRUE, cache_control |-> FALSE]

\* the tracked key sets that the save or the delete of a place clears
AffectedMetakeys(places, pk) ==
    LET ds == DataSets[places[pk].dataset]
    IN { get_cache_metakey(<<"/", ds.owner, "/", ds.slug, "/places/", IntToStr(pk)>>),
         get_cache_metakey(<<"/", ds.owner, "/", ds.slug, "/places">>) }

\* cache.clear_instance(obj)
clear_instance(s, places, pk) == CacheDelete(s, AffectedMetakeys(places, pk))


-----------------------------------------------------------------------------
(* A request through CachedResourceMixin.dispatch, one cache store or      *)
(* database operation per step                                             *)

NoInput == [method |-> None]

Blank ==
    [pc |-> "idle", inp |-> NoInput, key |-> <<>>, response_data |-> NoneVal,
     keyset |-> {}, hit |-> FALSE, handler |-> "none", response |-> NoResponse,
     keys |-> {}, flushes |-> 0]

Metakey(r) == get_cache_metakey(Path(req[r].inp))

Start(r, inp, cap) ==
    /\ req[r].pc \in {"idle", "done"}
    /\ nreq < cap
    /\ inp.method = "PUT" =>
          /\ StrToInt(inp.place_id) \in DOMAIN place
          /\ place[StrToInt(inp.place_id)].ver < MaxVersion
    /\ req' = [req EXCEPT ![r] = [Blank EXCEPT !.pc = "dispatch", !.inp = inp]]
    /\ nreq' = nreq + 1
    /\ UNCHANGED <<store, place, now, keyVars, clientVars>>

\* dispatch, up to the derivation of the key: an unsafe method goes straight
\* to the view's dispatch
Dispatch(r) ==
    /\ req[r].pc = "dispatch"
    /\ LET inp == req[r].inp
       IN IF inp.method \notin SAFE_METHODS
          THEN req' = [req EXCEPT ![r].pc = "super"]
          ELSE req' = [req EXCEPT
                  ![r].pc = "get_entry",
                  ![r].key = get_cache_key(Path(inp), inp.accept, inp.query,
                                 GroupToken(SessionUser(inp),
                                     get_dataset(inp.owner_username, inp.dataset_slug)))]
    /\ UNCHANGED <<store, place, now, nreq, keyVars, clientVars>>

\* response_data = django_cache.cache.get(key) or None
GetEntry(r) ==
    /\ req[r].pc = "get_entry"
    /\ req' = [req EXCEPT ![r].pc = "get_keyset",
                          ![r].response_data = CacheGet(store, now, req[r].key)]
    /\ UNCHANGED <<store, place, now, nreq, keyVars, clientVars>>

HitOnEntryAlone(response_data, key, keyset) == response_data # NoneVal

\* (response_data is not None) and (key in keyset)
IsHit(response_data, key, keyset) ==
    response_data # NoneVal /\ key \in keyset

\* keyset = django_cache.cache.get(metakey) or set(), and the test of the hit
GetKeyset(r) ==
    /\ req[r].pc = "get_keyset"
    /\ LET keyset == KeysetOf(CacheGet(store, now, Metakey(r)))
       IN req' = [req EXCEPT ![r].pc = "super",
                             ![r].keyset = keyset,
                             ![r].hit = IsHit(req[r].response_data, req[r].key, keyset)]
    /\ UNCHANGED <<store, place, now, nreq, keyVars, clientVars>>

CachedResponseUngated(gate_response, cached_response) == cached_response

\* On a hit the cached handler stands in for the view's handler inside
\* super().dispatch: the gate runs first, and its response wins.
CachedResponse(gate_response, cached_response) ==
    IF gate_response # NoResponse THEN gate_response ELSE cached_response

CacheAnyStatus(status_code) == TRUE

\* Only cache on OK response
ShouldCache(status_code) == status_code = 200

\* where dispatch goes on after super().dispatch has returned
AfterSuper(inp, hit, gate_ok, status_code) ==
    IF inp.method \notin SAFE_METHODS
    THEN (IF gate_ok THEN "clear" ELSE "done")
    ELSE IF hit THEN "flush"
    ELSE IF ShouldCache(status_code) THEN "set_entry"
    ELSE "flush"

\* super().dispatch: the gate, then the handler (the cached one on a hit);
\* an update writes the row here and clears the cache in the next step
SuperDispatch(r) ==
    /\ req[r].pc = "super"
    /\ LET inp == req[r].inp
           gate_ok == GateOutcome(inp) = "ok"
           response ==
               IF req[r].hit
               THEN CachedResponse(GateResponse(inp),
                                   respond_from_cache(req[r].response_data))
               ELSE IF gate_ok THEN Handle(inp, place)
               ELSE GateResponse(inp)
       IN /\ req' = [req EXCEPT
                  ![r].pc = AfterSuper(inp, req[r].hit, gate_ok, response.status),
                  ![r].handler = IF response.cached THEN "cached"
                                 ELSE IF gate_ok THEN "real" ELSE "none",
                  ![r].response = response]
          /\ place' = IF gate_ok /\ inp.method = "PUT"
                      THEN UpdatePlaces(inp, place) ELSE place
    /\ UNCHANGED <<store, now, nreq, keyVars, clientVars>>

\* CacheClearingModel.save, after the row is written: cache.clear_instance
Clear(r) ==
    /\ req[r].pc = "clear"
    /\ store' = clear_instance(store, place, StrToInt(req[r].inp.place_id))
    /\ req' = [req EXCEPT ![r].pc = "done"]
    /\ UNCHANGED <<place, now, nreq, keyVars, clientVars>>

CachedData(response) ==
    [kind |-> "response", content |-> response.content, status |-> response.status]

EntryTimeoutDoubled(timeout) == 2 * timeout

\* the timeout of the entry
EntryTimeout(timeout) == timeout

\* cache_response: django_cache.cache.set(key, (data, status, headers), timeout)
SetEntry(r) ==
    /\ req[r].pc = "set_entry"
    /\ store' = CacheSet(store, now, req[r].key, CachedData(req[r].response),
                         EntryTimeout(API_CACHE_TIMEOUT))
    /\ req' = [req EXCEPT ![r].pc = "get_keys"]
    /\ UNCHANGED <<place, now, nreq, keyVars, clientVars>>

\* cache_response: keys = django_cache.cache.get(meta_key) or set()
GetKeys(r) ==
    /\ req[r].pc = "get_keys"
    /\ req' = [req EXCEPT ![r].pc = "set_keys",
                          ![r].keys = KeysetOf(CacheGet(store, now, Metakey(r)))]
    /\ UNCHANGED <<store, place, now, nreq, keyVars, clientVars>>

KeysTimeoutHalved(timeout) == timeout \div 2

\* the timeout of the tracked key set
KeysTimeout(timeout) == timeout

\* cache_response: keys.add(key); django_cache.cache.set(meta_key, keys, timeout)
SetKeys(r) ==
    /\ req[r].pc = "set_keys"
    /\ store' = CacheSet(store, now, Metakey(r),
                         [kind |-> "keys", keys |-> req[r].keys \cup {req[r].key}],
                         KeysTimeout(API_CACHE_TIMEOUT))
    /\ req' = [req EXCEPT ![r].pc = "flush"]
    /\ UNCHANGED <<place, now, nreq, keyVars, clientVars>>

\* cache_buffer.flush(), then response['Cache-Control'] = 'no-cache'
Flush(r) ==
    /\ req[r].pc = "flush"
    /\ req' = [req EXCEPT ![r].pc = "done",
                          ![r].flushes = @ + 1,
                          ![r].response.cache_control = TRUE]
    /\ UNCHANGED <<store, place, now, nreq, keyVars, clientVars>>

\* time passes: the store drops what has expired
Tick ==
    /\ now < MaxTicks * TickLength
    /\ now' = now + TickLength
    /\ store' = [k \in {x \in DOMAIN store : store[x].exp > now + TickLength}
                    |-> store[k]]
    /\ UNCHANGED <<place, nreq, req, keyVars, clientVars>>


-----------------------------------------------------------------------------
(* The requests the behaviours are made of *)

Request(method, view, owner_username, dataset_slug, query, cred, apikey) ==
    [method |-> method, view |-> view, owner_username |-> owner_username,
     dataset_slug |-> dataset_slug, place_id |-> "1", accept |-> <<>>,
     query |-> query, session |-> cred.session, basic |-> cred.basic,
     bearer |-> cred.bearer, apikey |-> apikey]

Cred(session, basic, bearer) ==
    [session |-> session, basic |-> basic, bearer |-> bearer]

Anonymous == Cred(None, None, None)

Credentials ==
    { Anonymous, Cred("alice", None, None), Cred("carol", None, None),
      Cred(None, "carol", None), Cred(None, "bob", None),
      Cred(None, None, "bob"), Cred(None, None, "carol") }

Queries == { <<>>, <<"include_invisible">> }

\* the instance path of place 1 under its own dataset and under two others,
\* and the list path of its dataset
Targets ==
    { [view |-> "instance", owner_username |-> "alice", dataset_slug |-> "ds"],
      [view |-> "instance", owner_username |-> "bob", dataset_slug |-> "ds"],
      [view |-> "instance", owner_username |-> "alice", dataset_slug |-> "d2"],
      [view |-> "list", owner_username |-> "alice", dataset_slug |-> "ds"] }

Own == [view |-> "instance", owner_username |-> "alice", dataset_slug |-> "ds"]
OwnList == [view |-> "list", owner_username |-> "alice", dataset_slug |-> "ds"]
Foreign == [view |-> "instance", owner_username |-> "bob", dataset_slug |-> "ds"]
OtherSlug == [view |-> "instance", owner_username |-> "alice", dataset_slug |-> "d2"]

On(m, t, q, c, k) == Request(m, t.view, t.owner_username, t.dataset_slug, q, c, k)

\* reads of the place and of its list by every principal
ReadInputs ==
    { On("GET", t, <<>>, c, "none") : t \in {Own, OwnList}, c \in Credentials }
    \cup { On(m, t, <<>>, Anonymous, "none") : m \in {"HEAD", "OPTIONS"}, t \in {Own} }
    \cup { On("GET", Own, <<"include_invisible">>, c, "none") :
             c \in {Anonymous, Cred("alice", None, None)} }

\* reads of the place under the path of another owner or dataset
ForeignInputs ==
    { On("GET", Foreign, q, c, "none") :
        q \in Queries, c \in {Anonymous, Cred(None, "bob", None)} }
    \cup { On("GET", OtherSlug, q, Cred("alice", None, None), "none") : q \in Queries }

\* requests that present an API key
KeyedInputs ==
    { On(m, Own, <<>>, Anonymous, k) : m \in {"GET", "PUT"}, k \in {"valid", "invalid"} }

\* updates of the place
UpdateInputs ==
    { On("PUT", Own, <<>>, c, "none") :
        c \in {Anonymous, Cred("alice", None, None), Cred(None, "carol", None)} }

SequentialInputs == ReadInputs \cup ForeignInputs \cup KeyedInputs \cup UpdateInputs

-----------------------------------------------------------------------------
(* Specifications *)

MainInit ==
    /\ store = EmptyStore
    /\ place \in { [pk \in {1} |-> [dataset |-> 1, visible |-> v, ver |-> 0]] :
                     v \in BOOLEAN }
    /\ now = 0
    /\ nreq = 0
    /\ req = [r \in Workers |-> Blank]

NoKeyInput == [prefix |-> <<>>, contenttype |-> <<>>, querystring |-> <<>>, groups |-> <<>>]

KeyIdle == kin = NoKeyInput /\ kout = <<>>

ClientIdle == creq = NewRequest(<<>>, None) /\ cobs = NewObservations

Step(r) ==
    \/ Dispatch(r)
    \/ GetEntry(r)
    \/ GetKeyset(r)
    \/ SuperDispatch(r)
    \/ Clear(r)
    \/ SetEntry(r)
    \/ GetKeys(r)
    \/ SetKeys(r)
    \/ Flush(r)

Init == MainInit /\ KeyIdle /\ ClientIdle

\* one worker: a request starts when the one before it has returned
Next ==
    \/ \E inp \in SequentialInputs : Start(1, inp, MaxRequests)
    \/ Step(1)
    \/ Tick

Spec == Init /\ [][Next]_vars


\* the scenario of an anonymous reader and the owner's updates, one request
\* at a time
ScenarioInputs ==
    { On("GET", t, <<>>, Anonymous, "none") : t \in {Own, OwnList} }
    \cup { On("PUT", Own, <<>>, Cred("alice", None, None), "none") }

\* the order of the scenario: the anonymous read, the owner's update, then
\* anonymous reads
InScenarioOrder(inp) ==
    CASE nreq = 0 -> inp = On("GET", Own, <<>>, Anonymous, "none")
      [] nreq = 1 -> inp.method = "PUT"
      [] OTHER -> inp.method = "GET"

NextScenario ==
    \/ \E inp \in ScenarioInputs : InScenarioOrder(inp) /\ Start(1, inp, MaxScenario)
    \/ Step(1)
    \/ Tick

SpecScenario == Init /\ [][NextScenario]_vars


-----------------------------------------------------------------------------
(* Concurrent reads: two workers, their cache store operations interleaved, *)
(* no update and no expiry                                                  *)

ConcurrentInputs ==
    { On("GET", Own, <<>>, c, "none") : c \in {Anonymous, Cred("alice", None, None)} }
    \cup { On("GET", Foreign, <<>>, Anonymous, "none") }

ReadStep(r) ==
    \/ Dispatch(r)
    \/ GetEntry(r)
    \/ GetKeyset(r)
    \/ SuperDispatch(r)
    \/ SetEntry(r)
    \/ GetKeys(r)
    \/ SetKeys(r)
    \/ Flush(r)

NextConcurrent ==
    \/ \E r \in Workers, inp \in ConcurrentInputs : Start(r, inp, MaxRequests)
    \/ \E r \in Workers : ReadStep(r)

SpecConcurrent == Init /\ [][NextConcurrent]_vars

-----------------------------------------------------------------------------
(* get_cache_key as a function of its inputs *)

MaxQueryLen == 3
MaxGroups == 2

Texts(alphabet, n) == UNION { [1..k -> alphabet] : k \in 0..n }

KeyPrefixes == { <<"/places">>, <<"/places", ":", "1">> }
KeyAccepts == { <<>>, <<"json">>, <<":">> }
KeyQueries == Texts({"a", "&", "_", "=", "1", ":"}, MaxQueryLen)
KeyGroupTokens ==
    { <<"__owners__">> }
    \cup { JoinSeq(names, ",") : names \in Texts({<<"g1">>, <<"g2">>}, MaxGroups) }

KeyInputs ==
    [prefix : KeyPrefixes, contenttype : KeyAccepts, querystring : KeyQueries,
     groups : KeyGroupTokens]

MainIdle ==
    /\ store = EmptyStore
    /\ place = [pk \in {1} |-> [dataset |-> 1, visible |-> TRUE, ver |-> 0]]
    /\ now = 0
    /\ nreq = 0
    /\ req = [r \in Workers |-> Blank]

InitKey == MainIdle /\ ClientIdle /\ kin \in KeyInputs /\ kout = <<>>

DeriveKey ==
    /\ kout = <<>>
    /\ kout' = get_cache_key(kin.prefix, kin.contenttype, kin.querystring, kin.groups)
    /\ UNCHANGED <<kin, mainVars, clientVars>>

NextKey == DeriveKey

SpecKey == InitKey /\ [][NextKey]_vars

-----------------------------------------------------------------------------
(* The request object: reads and assignments of its client properties *)

InitClient ==
    /\ MainIdle
    /\ KeyIdle
    /\ creq \in { NewRequest(a, t) : a \in AuthenticatorLists, t \in {None, "user_token"} }
    /\ cobs = NewObservations

NextClient ==
    \/ ReadClient
    \/ SetClient
    \/ ReadClientAuth
    \/ SetClientAuth
    \/ ReadSuccessfulAuthenticator
    \/ ReadUser

SpecClient == InitClient /\ [][NextClient]_vars


-----------------------------------------------------------------------------
(* The group token of get_cache_key as a function of the user, the dataset *)
(* and the enumeration of the user's groups                                *)

GroupPool ==
    { [name |-> <<"g1">>, dataset_id |-> 1], [name |-> <<"g2">>, dataset_id |-> 1],
      [name |-> <<"g3">>, dataset_id |-> 3] }

\* the orders in which a query without ORDER BY can enumerate a user's groups
Enumerations ==
    { e \in Texts(GroupPool, Cardinality(GroupPool)) :
        \A i, j \in 1..Len(e) : i # j => e[i] # e[j] }

GroupInputs ==
    [user : Users \cup {None}, dataset_id : {0, 1, 3}, groups : Enumerations]

InitGroups == MainIdle /\ ClientIdle /\ kin \in GroupInputs /\ kout = <<>>

DeriveGroups ==
    /\ kout = <<>>
    /\ kout' = <<GroupTokenOf(kin.user, kin.dataset_id, kin.groups)>>
    /\ UNCHANGED <<kin, mainVars, clientVars>>

NextGroups == DeriveGroups

SpecGroups == InitGroups /\ [][NextGroups]_vars

-----------------------------------------------------------------------------
(* CacheClearingModel.save and delete of the place, with anonymous reads   *)
(* of its paths in between; kout is the log of the invalidations           *)

SaveWithoutClear(s, places, pk) == s

\* CacheClearingModel.save, after the row is written:
\* self.cache.clear_instance(self)
ClearOnSave(s, places, pk) == clear_instance(s, places, pk)

\* CacheClearingModel.delete, before the row is deleted:
\* self.cache.clear_instance(self)
ClearOnDelete(s, places, pk) == clear_instance(s, places, pk)

\* the keys tracked for the paths of the place when an invalidation starts
TrackedBefore(pk) ==
    UNION { KeysetOf(CacheGet(store, now, m)) : m \in AffectedMetakeys(place, pk) }

\* place.save()
Save ==
    /\ 1 \in DOMAIN place
    /\ place[1].ver < MaxVersion
    /\ place' = [place EXCEPT ![1] = Updated(@)]
    /\ store' = ClearOnSave(store, place', 1)
    /\ kout' = Append(kout, [op |-> "save", tracked |-> TrackedBefore(1)])
    /\ UNCHANGED <<now, nreq, req, kin, clientVars>>

\* place.delete()
Delete ==
    /\ 1 \in DOMAIN place
    /\ store' = ClearOnDelete(store, place, 1)
    /\ place' = [pk \in DOMAIN place \ {1} |-> place[pk]]
    /\ kout' = Append(kout, [op |-> "delete", tracked |-> TrackedBefore(1)])
    /\ UNCHANGED <<now, nreq, req, kin, clientVars>>

InvalidateInputs ==
    { On("GET", t, <<>>, Anonymous, "none") : t \in {Own, OwnList} }

NextInvalidate ==
    \/ \E inp \in InvalidateInputs : Start(1, inp, MaxRequests)
    \/ ReadStep(1)
    \/ Save
    \/ Delete

SpecInvalidate == Init /\ [][NextInvalidate]_vars

-----------------------------------------------------------------------------
(* Requests whose handling can abort: a call of the cache store raises, or *)
(* the worker is stopped, and dispatch returns no response                 *)

\* the exception leaves dispatch at the position the request is at: none of
\* the statements after it runs
Abort(r) ==
    /\ req[r].pc \notin {"idle", "done"}
    /\ req' = [req EXCEPT ![r].pc = "done", ![r].response = NoResponse]
    /\ UNCHANGED <<store, place, now, nreq, keyVars, clientVars>>

AbortInputs ==
    { On("GET", t, <<>>, c, "none") :
        t \in {Own, OwnList}, c \in {Anonymous, Cred("alice", None, None)} }

NextAbort ==
    \/ \E inp \in AbortInputs : Start(1, inp, MaxRequests)
    \/ ReadStep(1)
    \/ Abort(1)

SpecAbort == Init /\ [][NextAbort]_vars

-----------------------------------------------------------------------------
(* The permission rules as a function of the Subject, the client, the      *)
(* dataset and the action                                                   *)

GateClients == {None, "key_of_ds1", "key_without_rules"}
GateActions == {"read", "write", "read-private", "read-invisible"}

GateInputs ==
    [subject : Users \cup {None}, client : GateClients,
     dataset_id : DOMAIN DataSets, action : GateActions]

InitGate == MainIdle /\ ClientIdle /\ kin \in GateInputs /\ kout = <<>>

DecideGate ==
    /\ kout = <<>>
    /\ kout' = <<Authorize(kin.subject, kin.client, kin.dataset_id, kin.action)>>
    /\ UNCHANGED <<kin, mainVars, clientVars>>

NextGate == DecideGate

SpecGate == InitGate /\ [][NextGate]_vars

-----------------------------------------------------------------------------
(* verify_object as a function of the request and the object               *)

\* objects with the attribute 'visible', true or false, and without it
VerifiedObjects ==
    { [dataset |-> d, ver |-> 0] : d \in {1, 2} }
    \cup { [dataset |-> d, ver |-> 0, visible |-> v] : d \in {1, 2}, v \in BOOLEAN }

VerifyInputs ==
    [inp : { i \in ReadInputs \cup ForeignInputs : i.view = "instance" },
     places : { [pk \in {1} |-> obj] : obj \in VerifiedObjects }]

InitVerify == MainIdle /\ ClientIdle /\ kin \in VerifyInputs /\ kout = <<>>

Verify ==
    /\ kout = <<>>
    /\ kout' = <<verify_object(kin.inp, kin.places, 1)>>
    /\ UNCHANGED <<kin, mainVars, clientVars>>

NextVerify == Verify

SpecVerify == InitVerify /\ [][NextVerify]_vars

-----------------------------------------------------------------------------
(* Reads of the place under two keys, saves of the place by another        *)
(* process in between their steps, and the passing of time                 *)

StaleInputs ==
    { On("GET", Own, <<>>, c, "none") : c \in {Anonymous, Cred("alice", None, None)} }

NextStale ==
    \/ \E inp \in StaleInputs : Start(1, inp, MaxRequests)
    \/ ReadStep(1)
    \/ Save
    \/ Tick

SpecStale == Init /\ [][NextStale]_vars


-----------------------------------------------------------------------------
(* Cloning a dataset: DataSetListView.clone *)

MaxClones == 3

DigitChars == <<"0", "1", "2", "3", "4", "5", "6", "7", "8", "9">>

RECURSIVE str(_)
\* str(uniquifier): the decimal digits of a positive integer
str(n) ==
    IF n < 10 THEN <<DigitChars[n + 1]>>
    ELSE str(n \div 10) \o <<DigitChars[(n % 10) + 1]>>

\* the datasets table before any clone, in the order of the ids
CloneTable ==
    << [id |-> 1, owner |-> "alice", slug |-> <<"ds">>],
       [id |-> 2, owner |-> "bob", slug |-> <<"ds">>],
       [id |-> 3, owner |-> "alice", slug |-> <<"d2">>] >>

\* DataSetListView.get_queryset: the ids of the datasets of the owner in the URL
OwnerQueryset(table, owner) == {i \in DOMAIN table : table[i].owner = owner}

\* the slugs of the queryset
SlugsOf(table, owner) == {table[i].slug : i \in OwnerQueryset(table, owner)}

RECURSIVE Uniquify(_, _, _, _)
\* the loop over count(2): the candidate is kept when it is free, else the
\* original slug is joined with the next uniquifier
Uniquify(original_slug, slugs, unique_slug, uniquifier) ==
    IF unique_slug \notin slugs THEN unique_slug
    ELSE Uniquify(original_slug, slugs,
                  original_slug \o <<"-">> \o str(uniquifier), uniquifier + 1)

\* the slug never moves off the original one
KeepOriginalSlug(original_slug, slugs) == original_slug

unique_slug(original_slug, slugs) ==
    Uniquify(original_slug, slugs, original_slug, 2)

\* the requester may write under the owner of the URL and may read the private
\* and invisible data of the original: it is the owner of both
CloneAllowed(user, owner, original) == user = owner /\ original.owner = user

\* original.clone(overrides, commit=False): the fields of the original with
\* the overrides applied, and no id yet
clone_row(original, overrides) == [owner |-> original.owner, slug |-> overrides.slug]

\* unique_together (owner, slug): the table refuses a second row of the pair
SaveAllowed(table, row) ==
    ~ \E i \in DOMAIN table : table[i].owner = row.owner /\ table[i].slug = row.slug

SlugOverrides == {None, <<"ds">>, <<"new">>}

CloneResult(status, slug) == [status |-> status, slug |-> slug]

\* DataSetListView.clone: one POST with a clone header
CloneRequest(table, user, owner, original_id, slug) ==
    LET original == table[original_id]
        chosen == IF slug # None THEN slug
                  ELSE unique_slug(original.slug, SlugsOf(table, owner))
        row == clone_row(original, [slug |-> chosen])
    IN  IF original_id \notin DOMAIN table
        THEN [table |-> table, result |-> CloneResult(404, None)]
        ELSE IF ~CloneAllowed(user, owner, original)
        THEN [table |-> table, result |-> CloneResult(403, None)]
        ELSE IF slug # None /\ slug \in SlugsOf(table, owner)
        THEN [table |-> table, result |-> CloneResult(409, None)]
        ELSE IF ~SaveAllowed(table, row)
        THEN [table |-> table, result |-> CloneResult(500, None)]
        ELSE [table |-> Append(table, [id |-> Len(table) + 1,
                                       owner |-> row.owner, slug |-> row.slug]),
              result |-> CloneResult(202, chosen)]

CloneOwners == {"alice", "bob"}

InitClone == MainIdle /\ ClientIdle /\ kin = CloneTable /\ kout = <<>>

\* a clone request; kout keeps the request and its response
Clone ==
    \E user \in CloneOwners, owner \in CloneOwners,
       original_id \in DOMAIN kin, slug \in SlugOverrides :
        LET out == CloneRequest(kin, user, owner, original_id, slug)
        IN  /\ Len(kin) < Len(CloneTable) + MaxClones
            /\ kin' = out.table
            /\ kout' = <<[user |-> user, owner |-> owner, original |-> original_id,
                          slug |-> slug, before |-> kin, result |-> out.result]>>
            /\ UNCHANGED <<mainVars, clientVars>>

NextClone == Clone

SpecClone == InitClone /\ [][NextClone]_vars


-----------------------------------------------------------------------------
(* Updates of a place under the path of another owner or dataset *)

\* updates of the place through the path of another owner or of another
\* dataset, and reads through the same paths and the place's own
WrongPathInputs ==
    { On(m, Foreign, <<>>, c, "none") :
        m \in {"GET", "PUT"}, c \in {Anonymous, Cred(None, "bob", None)} }
    \cup { On(m, OtherSlug, <<>>, Cred("alice", None, None), "none") : m \in {"GET", "PUT"} }
    \cup { On("GET", Own, <<>>, Anonymous, "none") }

NextWrongPath ==
    \/ \E inp \in WrongPathInputs : Start(1, inp, MaxRequests)
    \/ Step(1)

SpecWrongPath == Init /\ [][NextWrongPath]_vars


-----------------------------------------------------------------------------
(* The Access-Control headers of a response: CorsEnabledMixin *)

SAFE_CORS_METHODS == {"GET", "HEAD", "TRACE"}

always_allow_options == TRUE

\* ', '.join(self.allowed_methods) of the place instance view
allowed_methods == <<"GET", "PUT", "PATCH", "DELETE", "OPTIONS">>

NoHeaders ==
    [origin |-> Unset, methods |-> Unset, headers |-> Unset, credentials |-> Unset]

\* the headers of the stored response stay when they are there
FinalizeKeepingStored(request, response_headers) ==
    IF response_headers # NoHeaders THEN response_headers
    ELSE [origin |-> request.HTTP_ORIGIN, methods |-> allowed_methods,
          headers |-> request.HTTP_ACCESS_CONTROL_REQUEST_HEADERS,
          credentials |-> "true"]

\* CorsEnabledMixin.finalize_response: the four Access-Control headers are
\* set on the response, over whatever it carried
finalize_response(request, response_headers) ==
    [response_headers EXCEPT
       !.origin =
           IF request.method \in SAFE_CORS_METHODS THEN request.HTTP_ORIGIN
           ELSE IF always_allow_options /\ request.method = "OPTIONS"
                THEN request.HTTP_ORIGIN
           ELSE IF request.client_is_origin \/ request.is_authenticated
                THEN request.HTTP_ORIGIN
           ELSE "*",
       !.methods = allowed_methods,
       !.headers = request.HTTP_ACCESS_CONTROL_REQUEST_HEADERS,
       !.credentials = "true"]

\* META.get('HTTP_ORIGIN'): None when the header is absent
Origins == {None, "a.example", "b.example"}

\* META.get('HTTP_ACCESS_CONTROL_REQUEST_HEADERS', '')
RequestHeaders == {"", "x-a", "x-b"}

CorsRequests ==
    [method : {"GET", "HEAD", "OPTIONS", "PUT"}, HTTP_ORIGIN : Origins,
     HTTP_ACCESS_CONTROL_REQUEST_HEADERS : RequestHeaders,
     client_is_origin : BOOLEAN, is_authenticated : BOOLEAN]

\* kin is the entry of the path (the headers a response was stored with, or
\* NoneVal), kout the last request with its response
InitCors == MainIdle /\ ClientIdle /\ kin = NoneVal /\ kout = <<>>

\* dispatch of a request of the path: on a hit the cached handler returns the
\* response built from the stored headers and the view finalizes it; on a
\* miss the finalized response of the handler is stored with its headers
CorsDispatch ==
    \E request \in CorsRequests :
        LET safe == request.method \in SAFE_METHODS
            hit == safe /\ kin # NoneVal
            handled == IF hit THEN kin.headers ELSE NoHeaders
            response == finalize_response(request, handled)
        IN  /\ kout' = <<[request |-> request, hit |-> hit,
                          stored |-> handled, response |-> response]>>
            /\ kin' = IF safe /\ ~hit
                      THEN [kind |-> "response", headers |-> response]
                      ELSE kin
            /\ UNCHANGED <<mainVars, clientVars>>

\* the invalidation of the path
CorsClear ==
    /\ kin # NoneVal
    /\ kin' = NoneVal
    /\ UNCHANGED <<kout, mainVars, clientVars>>

NextCors == CorsDispatch \/ CorsClear

SpecCors == InitCors /\ [][NextCors]_vars


-----------------------------------------------------------------------------
(* The dataset of a request: OwnedResourceMixin.get_dataset *)

\* kin is the dataset alice/ds: its row (the version saved last), the entry of
\* the dataset cache under (owner_username, dataset_slug), and the position of
\* a save; kout holds the requests in flight
DatasetInit ==
    [db |-> 0, cache |-> NoneVal, save |-> "idle"]

IdleLookup == [pc |-> "idle", _dataset |-> NoneVal]

\* ds_cache.get_instance(owner_username, dataset_slug)
_get_dataset_from_cache(s) == s.cache

\* the row of the dataset
_get_dataset_from_db(s) == [kind |-> "dataset", ver |-> s.db]

\* ds_cache.set_instance(dataset, owner_username, dataset_slug)
_save_dataset_in_cache(s, dataset) == [s EXCEPT !.cache = dataset]

InitDataset ==
    MainIdle /\ ClientIdle /\ kin = DatasetInit /\ kout = [r \in Workers |-> IdleLookup]

\* a request reaches get_dataset
LookupStart(r) ==
    /\ kout[r].pc \in {"idle", "done"}
    /\ kout' = [kout EXCEPT ![r] = [pc |-> "read", _dataset |-> NoneVal]]
    /\ UNCHANGED <<kin, mainVars, clientVars>>

\* self._dataset = _get_dataset_from_cache(...) or _get_dataset_from_db(...)
LookupRead(r) ==
    /\ kout[r].pc = "read"
    /\ kout' = [kout EXCEPT ![r] =
                  [pc |-> "write",
                   _dataset |-> IF _get_dataset_from_cache(kin) # NoneVal
                                THEN _get_dataset_from_cache(kin)
                                ELSE _get_dataset_from_db(kin)]]
    /\ UNCHANGED <<kin, mainVars, clientVars>>

\* self._save_dataset_in_cache(self._dataset, owner_username, dataset_slug)
LookupWriteBack(r) ==
    /\ kout[r].pc = "write"
    /\ kin' = _save_dataset_in_cache(kin, kout[r]._dataset)
    /\ kout' = [kout EXCEPT ![r].pc = "done"]
    /\ UNCHANGED <<mainVars, clientVars>>

\* DataSet.save: super().save writes the row
DatasetSaveRow ==
    /\ kin.save = "idle"
    /\ kin.db < MaxVersion
    /\ kin' = [kin EXCEPT !.db = @ + 1, !.save = "written"]
    /\ UNCHANGED <<kout, mainVars, clientVars>>

\* DataSet.save: self.cache.clear_instance(self) after the row is written
DatasetSaveClear ==
    /\ kin.save = "written"
    /\ kin' = [kin EXCEPT !.cache = NoneVal, !.save = "idle"]
    /\ UNCHANGED <<kout, mainVars, clientVars>>

NextDataset ==
    \/ \E r \in Workers : LookupStart(r) \/ LookupRead(r) \/ LookupWriteBack(r)
    \/ DatasetSaveRow
    \/ DatasetSaveClear

SpecDataset == InitDataset /\ [][NextDataset]_vars


-----------------------------------------------------------------------------
(* The actions of submitted things: SubmittedThing.save *)

MaxSaves == 4

\* kin is the database: the ids of the saved things, the rows of the actions in
\* the order of their creation, and the saves that have returned (the id of
\* the object before the save, the silent flag, the id after it); kout is the
\* save in progress
NoThings == [things |-> {}, actions |-> <<>>, saves |-> <<>>]

InitThings == MainIdle /\ ClientIdle /\ kin = NoThings /\ kout = <<>>

\* every save records a creation
AlwaysCreate(is_new) == "create"

\* action.action = 'create' if is_new else 'update'
ActionKind(is_new) == IF is_new THEN "create" ELSE "update"

\* the id the database gives to a new row
NextId(things) == Cardinality(things) + 1

\* save(silent): is_new = (self.id == None), then super().save writes the row
\* (a new row gets its id); the id of an object that has none is written 0
ThingSaveRow ==
    \E id \in {0} \cup kin.things, silent \in BOOLEAN :
        LET is_new == (id = 0)
            saved == IF is_new THEN NextId(kin.things) ELSE id
        IN  /\ kout = <<>>
            /\ Len(kin.saves) < MaxSaves
            /\ kin' = [kin EXCEPT !.things = @ \cup {saved}]
            /\ kout' = <<[before |-> id, is_new |-> is_new, silent |-> silent,
                          thing |-> saved]>>
            /\ UNCHANGED <<mainVars, clientVars>>

\* if not silent: the action of the save is created and saved; the save returns
ThingSaveAction ==
    /\ kout # <<>>
    /\ LET s == kout[1]
       IN kin' = [kin EXCEPT
                    !.actions = IF s.silent THEN @
                                ELSE Append(@, [action |-> ActionKind(s.is_new),
                                                thing |-> s.thing]),
                    !.saves = Append(@, [before |-> s.before, silent |-> s.silent,
                                         thing |-> s.thing])]
    /\ kout' = <<>>
    /\ UNCHANGED <<mainVars, clientVars>>

NextThings == ThingSaveRow \/ ThingSaveAction

SpecThings == InitThings /\ [][NextThings]_vars

-----------------------------------------------------------------------------
(* Properties *)

\* the positions of a request after super().dispatch has returned
Returned == {"clear", "set_entry", "get_keys", "set_keys", "flush", "done"}

\* the entry was present and its key was in the tracked set when the request
\* looked them up
Servable(q) == q.response_data # NoneVal /\ q.key \in q.keyset

\* C1: a safe-method request is answered from the cache only if the store
\* held an entry under its key and the key was in the tracked set of its
\* metakey; with the entry present but the key untracked (or the tracked set
\* missing) the request is a miss and the view's own handler runs.
C1_ServedOnlyIfTracked ==
    \A r \in Workers :
        /\ req[r].response.cached => Servable(req[r])
        /\ req[r].handler = "cached" => Servable(req[r])
        /\ ( /\ req[r].pc \in Returned
             /\ req[r].inp.method \in SAFE_METHODS
             /\ ~Servable(req[r])
             /\ GateOutcome(req[r].inp) = "ok" )
           => req[r].handler = "real" /\ ~req[r].response.cached

C1_Witness ==
    \E r \in Workers :
        /\ req[r].pc = "done"
        /\ req[r].response_data # NoneVal
        /\ req[r].key \notin req[r].keyset
        /\ req[r].handler = "real"

\* the path of the request names another owner or dataset than the place's
WrongPath(inp) ==
    /\ inp.view = "instance"
    /\ StrToInt(inp.place_id) \in DOMAIN place
    /\ LET ds == DataSets[place[StrToInt(inp.place_id)].dataset]
       IN inp.owner_username # ds.owner \/ inp.dataset_slug # ds.slug

\* C2: a GET of a place (visible or invisible) under the path of another
\* owner or dataset, admitted by the gate, yields not-found.
C2_WrongPathIsNotFound ==
    \A r \in Workers :
        ( /\ req[r].pc = "done"
          /\ req[r].inp.method = "GET"
          /\ WrongPath(req[r].inp)
          /\ GateOutcome(req[r].inp) = "ok" )
        => req[r].response.status = 404

\* C3: with the same path, Accept header and query string, two different
\* group tokens give two different keys.
C3_GroupTokenSeparatesKeys ==
    kout # <<>> =>
        \A g \in KeyGroupTokens :
            g # kin.groups =>
                get_cache_key(kin.prefix, kin.contenttype, kin.querystring, g) # kout

C3_Witness ==
    /\ kout # <<>>
    /\ kin.groups = <<"g1", ",", "g2">>
    /\ kin.querystring # <<>>

\* C4: a response served from the cache was stored for a Subject of the same
\* group token as the Subject it is served to, whichever authenticator
\* authenticated them.
C4_ServedOwnGroupEntry ==
    \A r \in Workers :
        ( /\ req[r].response.cached
          /\ req[r].response.content.kind \in {"place", "list"} )
        => req[r].response.content.viewer = Viewer(req[r].inp)

\* the data of a response shows the place as it is now
ShowsCurrent(response) ==
    /\ response.status = 200
    /\ response.content.kind = "place" => response.content.ver = place[1].ver
    /\ response.content.kind = "list" => response.content.items = {<<1, place[1].ver>>}

\* C5 (as stated): after the anonymous GET was cached and the owner's PUT
\* has updated the place, every later anonymous GET of the instance path and
\* of the list path misses the cache and returns the updated data.
C5_EveryLaterGetMisses ==
    ( /\ place[1].visible
      /\ nreq >= 3
      /\ req[1].pc = "done" )
    => ~req[1].hit /\ ShowsCurrent(req[1].response)

\* C5 (amended): after the anonymous GET was cached and the owner's PUT has
\* updated the place, every later anonymous GET of the instance path and of
\* the list path returns the updated data; the first one misses the cache,
\* and one that is served from the cache is served an entry stored after the
\* update.
C5_LaterGetsShowUpdate ==
    ( /\ place[1].visible
      /\ nreq >= 3
      /\ req[1].pc = "done" )
    => /\ ShowsCurrent(req[1].response)
       /\ nreq = 3 => ~req[1].hit
       /\ req[1].hit => nreq > 3 /\ ShowsCurrent(respond_from_cache(req[1].response_data))

C5_Witness ==
    /\ place[1].visible
    /\ nreq = 3
    /\ req[1].pc = "done"
    /\ req[1].inp.view = "instance"
    /\ req[1].response_data # NoneVal
    /\ req[1].response_data.content.ver = 0
    /\ ~req[1].hit
    /\ req[1].response.content.ver = 1


\* the tracked key set a lookup of the metakey finds in the store
Tracked(metakey) == KeysetOf(CacheGet(store, now, metakey))

\* C6: on a safe-method miss the response is stored if and only if its
\* status is 200: the entry is written under the derived key, then the key is
\* added to the tracked set of the view's metakey, both with the timeout
\* API_CACHE_TIMEOUT; with another status neither is written.
C6_StoredIffOk ==
    [][\A r \in Workers :
        /\ ( /\ req[r].pc = "super" /\ req'[r].pc # "super"
             /\ req[r].inp.method \in SAFE_METHODS /\ ~req[r].hit )
           => /\ (req'[r].pc = "set_entry") <=> (req'[r].response.status = 200)
              /\ req'[r].pc # "set_entry" => req'[r].pc = "flush"
              /\ store' = store
        /\ (req[r].pc = "set_entry" /\ req'[r].pc # "set_entry")
           => /\ req'[r].pc = "get_keys"
              /\ DOMAIN store' = DOMAIN store \cup {req[r].key}
              /\ store'[req[r].key] =
                    [val |-> [kind |-> "response",
                              content |-> req[r].response.content,
                              status |-> 200],
                     exp |-> now + API_CACHE_TIMEOUT, at |-> now]
              /\ \A k \in DOMAIN store \ {req[r].key} : store'[k] = store[k]
        /\ (req[r].pc = "get_keys" /\ req'[r].pc # "get_keys")
           => req'[r].pc = "set_keys" /\ store' = store
        /\ (req[r].pc = "set_keys" /\ req'[r].pc # "set_keys")
           => /\ req'[r].pc = "flush"
              /\ DOMAIN store' = DOMAIN store \cup {Metakey(r)}
              /\ req[r].key \in store'[Metakey(r)].val.keys
              /\ Tracked(Metakey(r)) \subseteq store'[Metakey(r)].val.keys
              /\ store'[Metakey(r)].exp = now + API_CACHE_TIMEOUT
              /\ \A k \in DOMAIN store \ {Metakey(r)} : store'[k] = store[k]
        /\ (req[r].pc = "flush" /\ req'[r].pc # "flush")
           => req'[r].pc = "done" /\ store' = store
      ]_vars

C6_Witness ==
    \E r \in Workers :
        /\ req[r].pc = "done"
        /\ req[r].inp.method \in SAFE_METHODS
        /\ ~req[r].hit
        /\ req[r].response.status = 200
        /\ req[r].key \in DOMAIN store
        /\ req[r].key \in Tracked(Metakey(r))
        /\ req[r].keys # {}

\* C7: when the concurrent requests have returned (no update, no expiry),
\* every key whose entry is in the store is in a tracked key set.
C7_NoKeyLost ==
    (\A r \in Workers : req[r].pc \in {"idle", "done"})
    => \A k \in DOMAIN store :
          store[k].val.kind = "response"
          => \E m \in DOMAIN store :
                store[m].val.kind = "keys" /\ k \in store[m].val.keys

\* C8: a request that presents an invalid API key gets the authentication
\* error and no payload, and no handler runs for it, the cached one included,
\* whether or not the resource is public and a servable entry exists.
C8_InvalidKeyStopsAtGate ==
    \A r \in Workers :
        (req[r].pc \in Returned /\ req[r].inp.apikey = "invalid")
        => /\ req[r].response.status = 401
           /\ req[r].response.content.kind = "error"
           /\ ~req[r].response.cached
           /\ req[r].handler = "none"
           /\ req[r].pc \notin {"clear", "set_entry", "get_keys", "set_keys"}

C8_Witness ==
    \E r \in Workers :
        /\ req[r].pc = "done"
        /\ req[r].inp.apikey = "invalid"
        /\ req[r].hit
        /\ req[r].response.status = 401

\* the first authenticator that does not return None, 0 when there is none
FirstDecisive(a) ==
    IF \E i \in 1..Len(a) : a[i].kind # "none"
    THEN CHOOSE i \in 1..Len(a) :
            a[i].kind # "none" /\ \A j \in 1..(i - 1) : a[j].kind = "none"
    ELSE 0

\* C9: the client authenticators are tried in their declared order; the
\* first that returns a result determines the client, the first that raises
\* ends the resolution with its exception, no authenticator after either is
\* run, and when all return None the client is None.
C9_FirstDecisiveWins ==
    cobs.res.ran >= 0 =>
        LET a == creq.client_authenticators
            d == FirstDecisive(a)
        IN /\ d = 0 => /\ ~cobs.res.raised
                       /\ cobs.res.attrs = _client_not_authenticated
                       /\ \A i \in 1..Len(a) : creq.calls[i] = 1
           /\ (d > 0 /\ a[d].kind = "ok")
              => /\ ~cobs.res.raised
                 /\ cobs.res.attrs._client = a[d].client
                 /\ cobs.res.attrs._client_auth = a[d].token
                 /\ cobs.res.attrs._client_authenticator = client_authentication_classes[d]
           /\ (d > 0 /\ a[d].kind = "raise") => cobs.res.raised
           /\ d > 0 => \A i \in 1..Len(a) : creq.calls[i] = (IF i <= d THEN 1 ELSE 0)

C9_Witness ==
    /\ cobs.res.ran = 1
    /\ Len(creq.client_authenticators) = 2
    /\ creq.client_authenticators[1].kind = "raise"
    /\ creq.client_authenticators[2].kind = "ok"
    /\ creq.calls[2] = 0

\* C10: within one request every read of client, client_auth and
\* successful_authenticator gives the outcome of the first read of that
\* property, and no client authenticator is run twice.
C10_ReadsRepeat ==
    /\ cobs.outcome # Unobserved => cobs.outcome = cobs.first[cobs.prop]
    /\ \A i \in DOMAIN creq.calls : creq.calls[i] <= 1


\* the request of worker r is under way and the gate stops it
GateStops(r) ==
    /\ req[r].pc \notin {"idle", "done"}
    /\ GateOutcome(req[r].inp) # "ok"

\* C11: a request that fails authentication or authorization ends at the
\* gate: no step of it reads the store (entry or tracked set) or writes it,
\* and no handler, the view's own or the cached one, runs for it.
C11_FailedEndsAtGate ==
    [][\A r \in Workers :
        GateStops(r)
        => /\ ~GetEntry(r) /\ ~GetKeyset(r) /\ ~GetKeys(r)
           /\ ~SetEntry(r) /\ ~SetKeys(r) /\ ~Clear(r)
           /\ req'[r].pc # "idle" => req'[r].handler = "none"
      ]_vars

\* a numeric nonce parameter of the query string
Nonces == { <<"_", "=">> \o d : d \in { <<"1">>, <<"0", "2">> } }

\* the positions of a query string where a parameter can be added: before
\* the first parameter, after the last, and before each separator
ParamBoundaries(q) ==
    {0, Len(q)} \cup { i \in 1..(Len(q) - 1) : q[i + 1] = "&" }

\* the query string with the parameter added after its i-th symbol
AddParam(q, i, param) ==
    IF Len(q) = 0 THEN param
    ELSE IF i = 0 THEN param \o <<"&">> \o q
    ELSE SubSeq(q, 1, i) \o <<"&">> \o param \o SubSeq(q, i + 1, Len(q))

\* C12: the key of a query string with a '_=<digits>' parameter added at any
\* position (first, middle, last) is the key of the query string without it.
C12_NonceInvariant ==
    kout # <<>> =>
        \A i \in ParamBoundaries(kin.querystring), n \in Nonces :
            get_cache_key(kin.prefix, kin.contenttype,
                          AddParam(kin.querystring, i, n), kin.groups) = kout


\* the group names in their sorted order
SortedNames(names) ==
    SelectSeq(<< <<"g1">>, <<"g2">>, <<"g3">> >>, LAMBDA n : n \in names)

\* C13: the group token is the owner token for the dataset's owner, otherwise
\* the sorted, comma-joined names of the user's groups of the request's
\* dataset, and empty for an anonymous user or without a dataset: it depends
\* on the set of the names, not on the order of their enumeration.
C13_GroupTokenOfNameSet ==
    kout # <<>> =>
        kout[1] =
            IF kin.user = None \/ kin.dataset_id = 0 THEN <<>>
            ELSE IF kin.user = DataSets[kin.dataset_id].owner THEN <<"__owners__">>
            ELSE JoinSeq(SortedNames({ kin.groups[i].name : i \in
                             { j \in 1..Len(kin.groups) :
                                 kin.groups[j].dataset_id = kin.dataset_id } }), ",")


\* C14: each invalidation of the place (a save, or a delete), the second of
\* two in succession included, leaves every tracked key set of its paths
\* empty and touches nothing else of the store.
C14_InvalidationIdempotent ==
    [][(Save \/ Delete)
        => /\ \A m \in AffectedMetakeys(place, 1) :
                KeysetOf(CacheGet(store', now', m)) = {}
           /\ \A k \in DOMAIN store \ AffectedMetakeys(place, 1) :
                k \in DOMAIN store' /\ store'[k] = store[k]
           /\ DOMAIN store' \subseteq DOMAIN store
      ]_vars

C14_Witness ==
    /\ Len(kout) = 2
    /\ kout[1].op = "save" /\ kout[1].tracked # {}
    /\ kout[2].op = "delete" /\ kout[2].tracked = {}
    /\ \A m \in DOMAIN store : store[m].val.kind # "keys"


\* C15: every request dispatched through a cached view, of a safe or an
\* unsafe method, hit or miss, stopped by the gate or not, has flushed the
\* write buffer exactly once when its response is returned.
C15_FlushedOnce ==
    \A r \in Workers : req[r].pc = "done" => req[r].flushes = 1

\* the handling of the request of worker r has aborted
Aborted(r) == req[r].pc = "done" /\ req[r].response = NoResponse

\* C16: when the handling of a request aborts before the flush, no write of
\* an entry or of a tracked key set made for it has reached the store (here
\* the store was empty when the request, the first, started).
C16_AbortLeavesNoWrite ==
    \A r \in Workers : (nreq = 1 /\ Aborted(r)) => store = EmptyStore

\* C17: every response a cache-enabled view returns carries
\* Cache-Control: no-cache, whatever the method, hit or miss, and the status.
C17_NoCacheHeader ==
    \A r \in Workers : req[r].pc = "done" => req[r].response.cache_control


\* C18: a Subject that is the owner of the dataset is allowed every action
\* (read, write, read-private, read-invisible) on it, whatever the client
\* and the rules of the client and of the Subject's groups.
C18_OwnerAllowed ==
    (kout # <<>> /\ kin.subject = DataSets[kin.dataset_id].owner) => kout[1]

C18_Witness ==
    /\ kout = <<TRUE>>
    /\ kin.subject = DataSets[kin.dataset_id].owner
    /\ kin.action = "read-private"
    /\ kin.client = "key_without_rules"


\* C19: verify_object denies with QueryError every request for an object
\* whose 'visible' is false when the query string has no include_invisible
\* parameter, whoever the principal is, the dataset's owner included; an
\* object without the attribute is treated as visible.
C19_InvisibleNeedsParam ==
    kout # <<>> =>
        LET obj == kin.places[1]
        IN /\ ("visible" \in DOMAIN obj /\ ~obj.visible /\ ~IncludeInvisible(kin.inp))
              => kout[1] = "QueryError"
           /\ ("visible" \notin DOMAIN obj \/ IncludeInvisible(kin.inp))
              => kout[1] # "QueryError"

C19_Witness ==
    /\ kout = <<"QueryError">>
    /\ kin.inp.session = DataSets[kin.places[1].dataset].owner
    /\ kin.inp.owner_username = DataSets[kin.places[1].dataset].owner
    /\ kin.inp.dataset_slug = DataSets[kin.places[1].dataset].slug


\* the metakey of the instance path of the place
PlaceMetakey == get_cache_metakey(Path(On("GET", Own, <<>>, Anonymous, "none")))

\* a lookup of the key at this moment would be a hit
ServableNow(k) == CacheGet(store, now, k) # NoneVal /\ k \in Tracked(PlaceMetakey)

\* the entry under the key holds the place as it was before an update
Stale(k) ==
    /\ store[k].val.kind = "response"
    /\ store[k].val.content.kind = "place"
    /\ store[k].val.content.ver < place[1].ver

C22_WrongPathPutIsNotFound ==
    /\ place[1].ver = 0
    /\ \A r \in Workers :
          ( /\ req[r].pc \in {"clear", "done"}
            /\ req[r].inp.method = "PUT"
            /\ WrongPath(req[r].inp)
            /\ GateOutcome(req[r].inp) = "ok" )
          => req[r].response.status = 404


\* C23: whatever the interleaving of a GET that missed with a save of the
\* place, once the save has completed no key of the tracked set of the path
\* maps to an entry computed from the place as it was before the save, so no
\* later GET is served the place of before the save.
C23_TrackedEntriesAreFresh ==
    \A k \in DOMAIN store : ServableNow(k) => ~Stale(k)


\* C24: a response served from the cache to a request of method GET, HEAD or
\* OPTIONS was stored by a request of the same method: a GET or HEAD is never
\* answered with the stored metadata of an OPTIONS, and an OPTIONS is never
\* answered with the stored representation of a GET.
C24_ServedOwnMethodEntry ==
    \A r \in Workers :
        (req[r].pc \in Returned /\ req[r].response.cached) =>
            (req[r].inp.method = "OPTIONS" <=> req[r].response.content.kind = "metadata")


\* C25: the key is injective on the path, the Accept header, the query string
\* without its nonce, and the group token: two requests that differ in one of
\* the four get two different keys, also when a component contains ":".
C25_KeyInjective ==
    kout # <<>> =>
        \A o \in KeyInputs :
            ( <<o.prefix, o.contenttype, StripCacheBuster(o.querystring), o.groups>>
                # <<kin.prefix, kin.contenttype, StripCacheBuster(kin.querystring), kin.groups>> )
            => get_cache_key(o.prefix, o.contenttype, o.querystring, o.groups) # kout


\* C26: on a cache hit the four Access-Control headers of the response are
\* those of the current request (its Origin, its requested headers, the
\* methods of the view, credentials allowed), whatever the stored response
\* carried.
C26_CorsOfCurrentRequest ==
    (kout # <<>> /\ kout[1].hit) =>
        /\ kout[1].response.origin = kout[1].request.HTTP_ORIGIN
        /\ kout[1].response.headers = kout[1].request.HTTP_ACCESS_CONTROL_REQUEST_HEADERS
        /\ kout[1].response.methods = allowed_methods
        /\ kout[1].response.credentials = "true"

\* a hit on an entry stored for another origin and other requested headers
C26_Witness ==
    /\ kout # <<>>
    /\ kout[1].hit
    /\ kout[1].stored.origin = "a.example"
    /\ kout[1].request.HTTP_ORIGIN = "b.example"
    /\ kout[1].stored.headers # kout[1].request.HTTP_ACCESS_CONTROL_REQUEST_HEADERS


\* C27: whatever the interleaving of get_dataset with a save of the dataset,
\* once the save has completed and the requests in flight have finished, the
\* entry of the dataset cache does not hold the dataset of before the save.
C27_DatasetCacheFresh ==
    (kin.save = "idle" /\ \A r \in Workers : kout[r].pc \in {"idle", "done"})
        => (kin.cache = NoneVal \/ kin.cache.ver = kin.db)


\* the saves that were not silent, in their order
NonSilentSaves == SelectSeq(kin.saves, LAMBDA s : ~s.silent)

\* C28: the actions are, one for one and in order, the saves that were not
\* silent: each references the thing of its save, is a 'create' exactly when
\* the thing had no id before the save and an 'update' otherwise; a silent
\* save adds none; and an action references a thing that is saved already.
C28_OneActionPerSave ==
    /\ Len(kin.actions) = Len(NonSilentSaves)
    /\ \A i \in DOMAIN kin.actions :
          /\ kin.actions[i].thing = NonSilentSaves[i].thing
          /\ kin.actions[i].thing \in kin.things
          /\ kin.actions[i].action = "create" <=> NonSilentSaves[i].before = 0
          /\ kin.actions[i].action = "update" <=> NonSilentSaves[i].before # 0

\* a creation, a silent save and an update of one thing
C28_Witness ==
    /\ Len(kin.saves) = 3
    /\ Len(kin.actions) = 2
    /\ kin.actions[1] = [action |-> "create", thing |-> 1]
    /\ kin.actions[2] = [action |-> "update", thing |-> 1]


\* the steps of dispatch that read or write the response cache
CacheSteps == {"get_entry", "get_keyset", "set_entry", "get_keys", "set_keys", "flush"}

\* C29: a request whose method is not GET, HEAD or OPTIONS derives no key, is
\* never at a step that reads or writes the response cache and is never
\* answered by the cached handler; and the steps of its dispatch leave the
\* entries and the tracked sets as they are (the clear of the save is the
\* step after them, and the expiry of an entry is no step of the request).
C29_UnsafeBypassesCache ==
    /\ [](\A r \in Workers :
            (req[r].pc # "idle" /\ req[r].inp.method \notin {"GET", "HEAD", "OPTIONS"}) =>
                /\ req[r].pc \notin CacheSteps
                /\ req[r].key = <<>>
                /\ ~req[r].hit
                /\ ~req[r].response.cached
                /\ req[r].handler # "cached")
    /\ [][(req[1].pc \in {"dispatch", "super"} /\ req[1].inp.method = "PUT"
              /\ req' # req)
              => store' = store]_vars

\* an update that has been answered by the view's handler while the store holds
\* a servable entry of the path
C29_Witness ==
    /\ req[1].inp.method = "PUT"
    /\ req[1].pc = "clear"
    /\ req[1].response.status = 200
    /\ req[1].handler = "real"
    /\ \E k \in DOMAIN store : ServableNow(k)


\* C30: a read of request.client_auth that returns gives the token of the
\* client: the one of the successful client authenticator (None when there is
\* none) after the resolution, the assigned value after an assignment, and
\* never the token of the user's authentication.
C30_ClientAuthIsClientToken ==
    (cobs.prop = "client_auth" /\ cobs.outcome \notin {Unobserved, "raise"})
        => cobs.outcome = creq._client_auth

====
